---- MODULE Spec2Model ----
(***************************************************************************)
(* Resumable paginated conversion pipeline of noted.md.                    *)
(*                                                                         *)
(* The checkpoint store is ProgressTracker (src/src/pdf_utils.rs); the     *)
(* output file and the checkpoint file are written with std::fs::write     *)
(* (src/src/main.rs:85, src/src/pdf_utils.rs:44), which is File::create    *)
(* (create or truncate) followed by write_all.  The batch scheduler and    *)
(* the incremental assembler that drive them are modelled from sections    *)
(* 4.3 and 4.4 of the specification, the page range resolver from section  *)
(* 4.1.  The backend clients are GeminiClient, ClaudeClient and            *)
(* OpenAIClient (src/src/clients).  SpecResolve, SpecBackend and SpecLoad  *)
(* exercise resolve, send_request and ProgressTracker::load alone.         *)
(*                                                                         *)
(* Text is a sequence of tokens: the token p >= 0 stands for the text the  *)
(* backend returns for page p, PAGE_DELIM for the page-break delimiter.    *)
(* A JSON document is represented by the map it encodes.                   *)
(***************************************************************************)
EXTENDS Integers, Sequences, FiniteSets, TLC

\* ---------------------------------------------------------------- bounds
MaxPages == 3
MaxBatch == 2
MaxRuns == 2
MaxExprLen == 5
MaxTextLen == 2
MaxOps == 3
MaxFiles == 2

\* ------------------------------------------------------------- constants
Doc == "a.pdf"
PAGE_DELIM == 0 - 1

VARIABLES
    total_pages,    \* page count of the document (process_pdf)
    blank,          \* pages for which the backend returns empty text
    outExists,      \* the output file exists on disk
    outFile,        \* content of the output file on disk
    progFile,       \* progress.json on disk: [st, files]
    pc,             \* position of the pipeline run
    inv,            \* inputs of the current run: [explicit, expr, pages, b]
    tracker,        \* in-memory ProgressTracker.files
    markdown,       \* in-memory output document
    batches,        \* batches of the current run
    k,              \* index of the batch in flight
    imgs,           \* pages of the batch in flight already extracted
    processed,      \* pages processed in this run
    saveNext,       \* what follows the save in progress
    outcome,        \* how the current / last run ended
    \* history variables, read by the properties only
    runs,           \* runs started so far
    calls,          \* backend calls of the current run
    pastEnds,       \* outcomes of the earlier runs
    firstInv,       \* inputs of the first run
    sameInv,        \* every run so far had the inputs of the first run
    completions,    \* runs that returned success so far
    startText,      \* content of the output file when the run started
    startProg,      \* progFile when the run started
    committedText,  \* content of the output file after the last complete flush
    accounted,      \* pages of the batches the persisted watermark accounts for
    memAccounted,   \* pages of the batches the in-memory watermark accounts for
    lastValid,      \* the store last written completely to progress.json
    doneText,       \* content of the output file when a run first returned success
    unit,           \* the call under study when one operation is exercised alone
    tally           \* complete flushes and per-batch saves of the current run

vars == <<total_pages, blank, outExists, outFile, progFile, pc, inv, tracker,
          markdown, batches, k, imgs, processed, saveNext, outcome, runs, calls,
          pastEnds, firstInv, sameInv, completions, startText, startProg,
          committedText, accounted, memAccounted, lastValid, doneText, unit,
          tally>>

\* ------------------------------------------------------------- sequences
Min(S) == CHOOSE x \in S : \A y \in S : x <= y

RECURSIVE SortedSeq(_)
SortedSeq(S) == IF S = {} THEN <<>> ELSE <<Min(S)>> \o SortedSeq(S \ {Min(S)})

Range(s) == {s[i] : i \in 1..Len(s)}

Last(s) == s[Len(s)]

Count(s, x) == Cardinality({i \in 1..Len(s) : s[i] = x})

\* ---------------------------------------------- ProgressTracker (pdf_utils.rs)
ProcessingProgress(last, total) == [last_processed_page |-> last, total_pages |-> total]

ProgressTracker_new == [d \in {} |-> ProcessingProgress(0, 0)]

NoProgFile == [st |-> "absent", files |-> ProgressTracker_new]

CorruptProgFile == [st |-> "corrupt", files |-> ProgressTracker_new]

\* progress.json exists and cannot be read (no permission, not UTF-8, a
\* directory).
UnreadableProgFile == [st |-> "unreadable", files |-> ProgressTracker_new]

\* get_progress_file_path: the configuration directory is found and
\* notedmd/ exists or is created in it, or an error.
get_progress_file_path(dir) ==
    IF dir = "none" THEN [ok |-> FALSE, err |-> "ConfigDirError"]
    ELSE IF dir = "uncreatable" THEN [ok |-> FALSE, err |-> "IoError"]
    ELSE [ok |-> TRUE, err |-> "none"]

\* Mutant of load: a file that does not decode gives a fresh tracker.
load_or_default(file) ==
    IF file.st = "unreadable"
    THEN [ok |-> FALSE, err |-> "IoError", files |-> ProgressTracker_new]
    ELSE IF file.st = "valid"
    THEN [ok |-> TRUE, err |-> "none", files |-> file.files]
    ELSE [ok |-> TRUE, err |-> "none", files |-> ProgressTracker_new]

\* load, once the path is known: Ok(new) when the file does not exist, the
\* error of read_to_string when it cannot be read, a decode error when its
\* content is not a JSON document of a tracker, the decoded map otherwise.
load(file) ==
    IF file.st = "absent"
    THEN [ok |-> TRUE, err |-> "none", files |-> ProgressTracker_new]
    ELSE IF file.st = "unreadable"
    THEN [ok |-> FALSE, err |-> "IoError", files |-> ProgressTracker_new]
    ELSE IF file.st = "corrupt"
    THEN [ok |-> FALSE, err |-> "JsonError", files |-> ProgressTracker_new]
    ELSE [ok |-> TRUE, err |-> "none", files |-> file.files]

\* Mutant of save: serialises a fresh tracker instead of self.
save_default(files) == [st |-> "valid", files |-> ProgressTracker_new]

\* save: the content handed to fs::write.
save(files) == [st |-> "valid", files |-> files]

\* Mutant of get_progress: the lookup misses every key.
get_progress_none(files, file_path) ==
    [some |-> FALSE, v |-> ProcessingProgress(0, 0)]

\* get_progress: Option<&ProcessingProgress> as [some, v].
get_progress(files, file_path) ==
    IF file_path \in DOMAIN files
    THEN [some |-> TRUE, v |-> files[file_path]]
    ELSE [some |-> FALSE, v |-> ProcessingProgress(0, 0)]

\* Mutant of update_progress: entry().or_insert, an existing record is kept.
update_progress_keep(files, file_path, progress) ==
    [d \in DOMAIN files \cup {file_path} |->
        IF d \in DOMAIN files THEN files[d] ELSE progress]

update_progress(files, file_path, progress) ==
    [d \in DOMAIN files \cup {file_path} |->
        IF d = file_path THEN progress ELSE files[d]]

\* Mutant of mark_completed: the record is kept.
mark_completed_keep(files, file_path) == files

mark_completed(files, file_path) ==
    [d \in DOMAIN files \ {file_path} |-> files[d]]

\* ------------------------------------------------------ std::fs::write
\* File::create truncates: the file exists and is empty.
\* write_all that fails or is cut short leaves a proper prefix of contents.
PartialWrites(contents) == {SubSeq(contents, 1, n) : n \in 0..(Len(contents) - 1)}

\* ------------------------------------------------ conversion backend
\* One call per batch, one text for the whole batch: the text of its pages
\* in order (nothing for a blank page).
Convert(batch, blk) ==
    LET Kept(p) == p \notin blk
    IN  SelectSeq(batch, Kept)

\* ---------------------------------- backend clients (src/src/clients)
\* The text of a response is a sequence of pieces: FENCE_OPEN stands for
\* the opening of a markdown code fence (three backquotes, "markdown", a
\* newline), FENCE for three backquotes, any other piece for text without
\* backquotes.
FENCE_OPEN == "fence markdown newline"

FENCE == "fence"

RECURSIVE trim_start_matches(_, _)
trim_start_matches(text, pat) ==
    IF text # <<>> /\ text[1] = pat THEN trim_start_matches(Tail(text), pat)
    ELSE text

RECURSIVE trim_end_matches(_, _)
trim_end_matches(text, pat) ==
    IF text # <<>> /\ Last(text) = pat
    THEN trim_end_matches(SubSeq(text, 1, Len(text) - 1), pat)
    ELSE text

Ok(text) == [ok |-> TRUE, text |-> text, err |-> "none"]

Err(e) == [ok |-> FALSE, text |-> <<>>, err |-> e]

\* A response: whether the request got one (sent), its status, and its body:
\* whether it is JSON (json), whether it has an error member (error), and
\* its list of candidates / content blocks / choices (items): "absent",
\* "empty", "notext" (the first item has no text member: for Gemini its
\* parts are an empty list) or "text" (the first item carries text).
\* serde_json::from_str into GeminiResponse: candidates are optional, the
\* parts of a candidate may be an empty list.
GeminiResponse(resp) == resp.json

\* serde_json::from_str into ClaudeResponse: content is required and every
\* block has text.
ClaudeResponse(resp) == resp.json /\ resp.items \in {"empty", "text"}

\* serde_json::from_str into OpenAIResponse: choices are required and every
\* choice has message.content.
OpenAIResponse(resp) == resp.json /\ resp.items \in {"empty", "text"}

\* first() ... map(text) ... unwrap_or(""), then the fences are trimmed.
first_text(resp) ==
    LET markdown_text == IF resp.items = "text" THEN resp.text ELSE <<>>
    IN  trim_end_matches(trim_start_matches(markdown_text, FENCE_OPEN), FENCE)

GeminiClient_send_request(resp) ==
    IF ~resp.sent THEN Err("NetworkError")
    ELSE IF resp.status # "OK"
    THEN IF resp.status = "UNAUTHORIZED" THEN Err("InvalidApiKey")
         ELSE Err("ApiError")
    ELSE IF ~GeminiResponse(resp) THEN Err("ResponseDecodeError")
    ELSE IF resp.error THEN Err("ApiError")
    ELSE Ok(first_text(resp))

ClaudeClient_send_request(resp) ==
    IF ~resp.sent THEN Err("NetworkError")
    ELSE IF resp.status # "OK"
    THEN IF resp.status = "UNAUTHORIZED" THEN Err("InvalidApiKey")
         ELSE Err("ApiError")
    ELSE IF ~ClaudeResponse(resp) THEN Err("ResponseDecodeError")
    ELSE IF resp.error THEN Err("ApiError")
    ELSE Ok(first_text(resp))

OpenAIClient_send_request(resp) ==
    IF ~resp.sent THEN Err("NetworkError")
    ELSE IF resp.status # "OK" THEN Err("ApiError")
    ELSE IF ~OpenAIResponse(resp) THEN Err("ResponseDecodeError")
    ELSE IF resp.error THEN Err("ApiError")
    ELSE Ok(first_text(resp))

\* ------------------------------------------------ IncrementalAssembler
\* Mutant of append: the document is the new text alone.
append_new_only(existing_text, new_text) == new_text

append(existing_text, new_text) ==
    IF existing_text # <<>> /\ new_text # <<>>
    THEN existing_text \o <<PAGE_DELIM>> \o new_text
    ELSE existing_text \o new_text

\* --------------------------------------------------- PageRangeResolver
\* An expression is a sequence of characters.
DIGITS == <<"0", "1", "2", "3", "4", "5", "6", "7", "8", "9">>

IsDigit(c) == \E i \in 1..Len(DIGITS) : DIGITS[i] = c

DigitValue(c) == (CHOOSE i \in 1..Len(DIGITS) : DIGITS[i] = c) - 1

\* The pieces of s between the occurrences of sep.
RECURSIVE split(_, _)
split(s, sep) ==
    IF \A i \in 1..Len(s) : s[i] # sep THEN <<s>>
    ELSE LET i == Min({j \in 1..Len(s) : s[j] = sep})
         IN  <<SubSeq(s, 1, i - 1)>> \o split(SubSeq(s, i + 1, Len(s)), sep)

RECURSIVE DecimalValue(_)
DecimalValue(s) ==
    IF s = <<>> THEN 0
    ELSE DecimalValue(SubSeq(s, 1, Len(s) - 1)) * 10 + DigitValue(Last(s))

\* A numeric token read as an unsigned integer: [ok, v].  The expressions
\* considered are too short for a value to exceed 32 bits.
parse(s) ==
    IF s = <<>> \/ \E i \in 1..Len(s) : ~IsDigit(s[i])
    THEN [ok |-> FALSE, v |-> 0]
    ELSE [ok |-> TRUE, v |-> DecimalValue(s)]

RECURSIVE to_string(_)
to_string(n) ==
    IF n < Len(DIGITS) THEN <<DIGITS[n + 1]>>
    ELSE to_string(n \div Len(DIGITS)) \o <<DIGITS[(n % Len(DIGITS)) + 1]>>

TokenError(rule) == [ok |-> FALSE, pages |-> {}, rule |-> rule]

\* Mutant of TokenPages: the bounds of a range are not compared.
TokenPages_unordered(token, total) ==
    LET parts == split(token, "-")
        a == parse(parts[1])
        b == parse(parts[Len(parts)])
    IN  IF Len(parts) > 2 \/ ~a.ok \/ ~b.ok THEN TokenError("not a number")
        ELSE IF a.v = 0 \/ b.v = 0 THEN TokenError("zero")
        ELSE IF a.v > total \/ b.v > total THEN TokenError("out of range")
        ELSE [ok |-> TRUE, pages |-> (a.v - 1)..(b.v - 1), rule |-> "none"]

\* One token: a page number or a range start-end, one-indexed.  The rules
\* in order: the numbers parse, none is 0, start <= end, none is above
\* total.  The pages named, zero-indexed.
TokenPages(token, total) ==
    LET parts == split(token, "-")
        a == parse(parts[1])
        b == parse(parts[Len(parts)])
    IN  IF Len(parts) > 2 \/ ~a.ok \/ ~b.ok THEN TokenError("not a number")
        ELSE IF a.v = 0 \/ b.v = 0 THEN TokenError("zero")
        ELSE IF a.v > b.v THEN TokenError("inverted")
        ELSE IF b.v > total THEN TokenError("out of range")
        ELSE [ok |-> TRUE, pages |-> (a.v - 1)..(b.v - 1), rule |-> "none"]

\* The tokens from the i-th on, after the pages acc of the earlier tokens:
\* the first token that breaks a rule ends the resolution with an error that
\* names it and with no pages.
RECURSIVE collect(_, _, _, _)
collect(tokens, i, total, acc) ==
    IF i > Len(tokens)
    THEN [ok |-> TRUE, pages |-> SortedSeq(acc), token |-> 0, rule |-> "none"]
    ELSE LET r == TokenPages(tokens[i], total)
         IN  IF ~r.ok
             THEN [ok |-> FALSE, pages |-> <<>>, token |-> i, rule |-> r.rule]
             ELSE collect(tokens, i + 1, total, acc \cup r.pages)

\* Mutant of resolve: the pages are those of the first token only.
resolve_first(expression, total) ==
    collect(<<split(expression, ",")[1]>>, 1, total, {})

\* resolve(expression, total_pages) -> PageSelection | Error.
resolve(expression, total) == collect(split(expression, ","), 1, total, {})

\* ------------------------------------------------------ BatchScheduler
\* Step 2: the effective page set for watermark w.
EffectiveSet(explicit, pages, w, total) ==
    IF explicit THEN {p \in pages : p >= w}
    ELSE {p \in 0..(total - 1) : p >= w}

\* Mutant of Chunks: a batch is closed at every gap of the selection.
RECURSIVE Chunks_adjacent(_, _)
Chunks_adjacent(s, b) ==
    IF s = <<>> THEN <<>>
    ELSE LET n == Min({i \in 1..Len(s) :
                         i = b \/ i = Len(s) \/ s[i + 1] # s[i] + 1})
         IN  <<SubSeq(s, 1, n)>> \o Chunks_adjacent(SubSeq(s, n + 1, Len(s)), b)

\* Step 4: simple chunking of the effective set.
RECURSIVE Chunks(_, _)
Chunks(s, b) ==
    IF s = <<>> THEN <<>>
    ELSE IF Len(s) <= b THEN <<s>>
    ELSE <<SubSeq(s, 1, b)>> \o Chunks(SubSeq(s, b + 1, Len(s)), b)

RECURSIVE Flatten(_)
Flatten(bs) == IF bs = <<>> THEN <<>> ELSE bs[1] \o Flatten(Tail(bs))

\* Step 5d: the record written after a batch.
BatchProgress(batch, total) == ProcessingProgress(Last(batch) + 1, total)

\* The expression that lists the pages of P, one-indexed and ascending.
RECURSIVE ExprOf(_)
ExprOf(P) ==
    IF P = {} THEN <<>>
    ELSE IF Cardinality(P) = 1 THEN to_string(Min(P) + 1)
    ELSE to_string(Min(P) + 1) \o <<",">> \o ExprOf(P \ {Min(P)})

\* Expressions that break a rule: page 0, an inverted range, a token that is
\* no number, a page above the page count.
BadExprs(total) ==
    {<<"0">>, <<"2", "-", "1">>, <<"x">>, to_string(total + 1)}

\* What the caller passes: no selection, or an expression, and the batch size.
Invocations(total) ==
    {[explicit |-> FALSE, expr |-> <<>>, b |-> b] : b \in 1..MaxBatch}
    \cup {[explicit |-> TRUE, expr |-> ExprOf(P), b |-> b] :
            P \in (SUBSET (0..(total - 1))) \ {{}}, b \in 1..MaxBatch}
    \cup {[explicit |-> TRUE, expr |-> e, b |-> b] :
            e \in BadExprs(total), b \in 1..MaxBatch}

\* The inputs of a run: what the caller passed and the pages resolved from it.
Inputs(i, pages) ==
    [explicit |-> i.explicit, expr |-> i.expr, pages |-> pages, b |-> i.b]

Passed(in) == [explicit |-> in.explicit, expr |-> in.expr, b |-> in.b]

\* A later invocation repeats the first one, or passes an expression that
\* breaks a rule.
Reinvocations(first, total) ==
    {Passed(first)} \cup
    {[explicit |-> TRUE, expr |-> e, b |-> first.b] : e \in BadExprs(total)}

NoInv == Inputs([explicit |-> FALSE, expr |-> <<>>, b |-> 1], {})

Running == {"extract", "convert", "flush_create", "flush_write",
            "save_create", "save_write"}

\* No operation is exercised alone: the pipeline runs.
NoUnit == [op |-> "none"]

\* The pipeline before its first run, on a machine without output file.
NoTally == [flushes |-> 0, saves |-> 0, watermark |-> 0]

InitPipeline ==
    /\ tally = NoTally
    /\ outExists = FALSE
    /\ outFile = <<>>
    /\ pc = "idle"
    /\ inv = NoInv
    /\ tracker = ProgressTracker_new
    /\ markdown = <<>>
    /\ batches = <<>>
    /\ k = 0
    /\ imgs = 0
    /\ processed = 0
    /\ saveNext = "none"
    /\ outcome = "none"
    /\ runs = 0
    /\ calls = 0
    /\ pastEnds = {}
    /\ firstInv = NoInv
    /\ sameInv = TRUE
    /\ completions = 0
    /\ startText = <<>>
    /\ startProg = NoProgFile
    /\ committedText = <<>>
    /\ accounted = {}
    /\ memAccounted = {}
    /\ lastValid = NoProgFile
    /\ doneText = <<>>

Init ==
    /\ total_pages \in 1..MaxPages
    /\ blank \in {B \in SUBSET (0..(total_pages - 1)) : Cardinality(B) <= 1}
    /\ InitPipeline
    /\ progFile = NoProgFile
    /\ unit = NoUnit

\* A run returned success.
Succeed ==
    /\ pc' = "done"
    /\ outcome' = "ok"
    /\ completions' = completions + 1
    /\ doneText' = IF completions = 0 THEN outFile ELSE doneText

\* A run returned the error of the step `kind`.
Fail(kind) ==
    /\ pc' = "failed"
    /\ outcome' = kind
    /\ UNCHANGED <<completions, doneText>>

\* Resolve the page-selection expression, if one was passed; then steps 1-4:
\* load the checkpoint, determine the effective set, read the existing
\* output, partition into batches.
StartRun ==
    /\ pc \in {"idle", "done", "failed"}
    /\ runs < MaxRuns
    /\ \E i \in (IF runs = 0 THEN Invocations(total_pages)
                            ELSE Reinvocations(firstInv, total_pages)) :
      \E sel \in {IF i.explicit THEN resolve(i.expr, total_pages)
                   ELSE [ok |-> TRUE, pages |-> <<>>, token |-> 0, rule |-> "none"]} :
        LET in == Inputs(i, Range(sel.pages))
            ld == load(progFile)
            g == get_progress(ld.files, Doc)
            w == IF g.some THEN g.v.last_processed_page ELSE 0
            eff == SortedSeq(EffectiveSet(in.explicit, in.pages, w, total_pages))
            started == sel.ok /\ ld.ok
        IN  /\ inv' = in
            /\ firstInv' = IF runs = 0 THEN in ELSE firstInv
            /\ sameInv' = (sameInv /\ (runs = 0 \/ in = firstInv))
            /\ markdown' = IF started /\ outExists THEN outFile ELSE <<>>
            /\ memAccounted' = IF started /\ g.some /\ ~(eff = <<>> /\ in.explicit)
                               THEN accounted ELSE {}
            /\ IF ~sel.ok
               THEN /\ Fail("input")
                    /\ tracker' = ProgressTracker_new
                    /\ batches' = <<>>
                    /\ k' = 0
                    /\ saveNext' = "none"
               ELSE IF ~ld.ok
               THEN /\ Fail("load")
                    /\ tracker' = ProgressTracker_new
                    /\ batches' = <<>>
                    /\ k' = 0
                    /\ saveNext' = "none"
               ELSE IF eff = <<>> /\ in.explicit /\ g.some
               THEN /\ pc' = "save_create"
                    /\ outcome' = "running"
                    /\ UNCHANGED <<completions, doneText>>
                    /\ tracker' = mark_completed(ld.files, Doc)
                    /\ batches' = <<>>
                    /\ k' = 0
                    /\ saveNext' = "final"
               ELSE IF eff = <<>>
               THEN /\ Succeed
                    /\ tracker' = ld.files
                    /\ batches' = <<>>
                    /\ k' = 0
                    /\ saveNext' = "none"
               ELSE /\ pc' = "extract"
                    /\ outcome' = "running"
                    /\ UNCHANGED <<completions, doneText>>
                    /\ tracker' = ld.files
                    /\ batches' = Chunks(eff, in.b)
                    /\ k' = 1
                    /\ saveNext' = "none"
    /\ imgs' = 0
    /\ processed' = 0
    /\ runs' = runs + 1
    /\ calls' = 0
    /\ pastEnds' = IF runs = 0 THEN {} ELSE pastEnds \cup {outcome}
    /\ startText' = outFile
    /\ startProg' = progFile
    /\ tally' = NoTally
    /\ UNCHANGED <<unit, total_pages, blank, outExists, outFile, progFile,
                   committedText, accounted, lastValid>>

\* Step 5a: one extraction per page of the batch in flight.
ExtractPage ==
    /\ pc = "extract"
    /\ imgs' = imgs + 1
    /\ pc' = IF imgs + 1 = Len(batches[k]) THEN "convert" ELSE "extract"
    /\ UNCHANGED <<tally, unit, total_pages, blank, outExists, outFile, progFile,
                   inv, tracker,
                   markdown, batches, k, processed, saveNext, outcome, runs, calls,
                   pastEnds, firstInv, sameInv, completions, startText, startProg,
                   committedText, accounted, memAccounted, lastValid, doneText>>

\* extract_page_as_image returned an error: the run ends.
ExtractFail ==
    /\ pc = "extract"
    /\ Fail("extract")
    /\ UNCHANGED <<tally, unit, total_pages, blank, outExists, outFile, progFile,
                   inv, tracker,
                   markdown, batches, k, imgs, processed, saveNext, runs, calls,
                   pastEnds, firstInv, sameInv, startText, startProg,
                   committedText, accounted, memAccounted, lastValid, doneText>>

\* Steps 5b, 5c: the backend returned the text of the batch; the assembler
\* appends it and opens the output file (File::create truncates it).
ConvertOk ==
    /\ pc = "convert"
    /\ calls' = calls + 1
    /\ markdown' = append(markdown, Convert(batches[k], blank))
    /\ pc' = "flush_create"
    /\ UNCHANGED <<tally, unit, total_pages, blank, outExists, outFile, progFile,
                   inv, tracker,
                   batches, k, imgs, processed, saveNext, outcome, runs,
                   pastEnds, firstInv, sameInv, completions, startText, startProg,
                   committedText, accounted, memAccounted, lastValid, doneText>>

\* Mutant of ConvertFail: the call is made again instead of ending the run.
ConvertFail_retry ==
    /\ pc = "convert"
    /\ calls <= Len(batches)
    /\ calls' = calls + 1
    /\ UNCHANGED <<tally, unit, total_pages, blank, outExists, outFile, progFile,
                   inv, tracker, markdown, batches, k, imgs, processed, saveNext,
                   runs, pastEnds, firstInv, sameInv, startText, startProg,
                   committedText, accounted, memAccounted, lastValid, doneText,
                   pc, outcome, completions>>

\* The backend returned an error: the run ends.
ConvertFail ==
    /\ pc = "convert"
    /\ calls' = calls + 1
    /\ Fail("backend")
    /\ UNCHANGED <<tally, unit, total_pages, blank, outExists, outFile, progFile,
                   inv, tracker,
                   markdown, batches, k, imgs, processed, saveNext, runs,
                   pastEnds, firstInv, sameInv, startText, startProg,
                   committedText, accounted, memAccounted, lastValid, doneText>>

\* fs::write of the output, first half: File::create creates or truncates.
FlushCreate ==
    /\ pc = "flush_create"
    /\ outExists' = TRUE
    /\ outFile' = <<>>
    /\ pc' = "flush_write"
    /\ UNCHANGED <<tally, unit, total_pages, blank, progFile, inv, tracker,
                   markdown, batches, k, imgs, processed, saveNext, outcome, runs,
                   calls, pastEnds, firstInv, sameInv, completions, startText,
                   startProg, committedText, accounted, memAccounted, lastValid,
                   doneText>>

\* File::create failed: the file is untouched, the run ends.
FlushCreateFail ==
    /\ pc = "flush_create"
    /\ Fail("flush")
    /\ UNCHANGED <<tally, unit, total_pages, blank, outExists, outFile, progFile,
                   inv, tracker,
                   markdown, batches, k, imgs, processed, saveNext, runs, calls,
                   pastEnds, firstInv, sameInv, startText, startProg,
                   committedText, accounted, memAccounted, lastValid, doneText>>

\* fs::write of the output, second half: write_all wrote the whole document.
\* Step 5d follows: update_progress in memory, then save.
FlushWrite ==
    /\ pc = "flush_write"
    /\ outFile' = markdown
    /\ committedText' = markdown
    /\ tracker' = update_progress(tracker, Doc, BatchProgress(batches[k], total_pages))
    /\ memAccounted' = memAccounted \cup Range(batches[k])
    /\ processed' = processed + Len(batches[k])
    /\ saveNext' = "batch"
    /\ pc' = "save_create"
    /\ tally' = [tally EXCEPT !.flushes = @ + 1]
    /\ UNCHANGED <<unit, total_pages, blank, outExists, progFile, inv,
                   markdown, batches, k, imgs, outcome, runs,
                   calls, pastEnds, firstInv, sameInv, completions, startText,
                   startProg, accounted, doneText, lastValid>>

\* write_all failed: a proper prefix of the document is in the file, the
\* run ends.
FlushWriteFail ==
    /\ pc = "flush_write"
    /\ outFile' \in PartialWrites(markdown)
    /\ Fail("flush")
    /\ UNCHANGED <<tally, unit, total_pages, blank, outExists, progFile, inv,
                   tracker,
                   markdown, batches, k, imgs, processed, saveNext, runs, calls,
                   pastEnds, firstInv, sameInv, startText, startProg,
                   committedText, accounted, memAccounted, lastValid, doneText>>

\* fs::write of progress.json, first half: File::create creates or truncates;
\* an empty file is not a JSON document.
SaveCreate ==
    /\ pc = "save_create"
    /\ progFile' = CorruptProgFile
    /\ accounted' = {}
    /\ pc' = "save_write"
    /\ UNCHANGED <<tally, unit, total_pages, blank, outExists, outFile, inv, tracker,
                   markdown, batches, k, imgs, processed, saveNext, outcome, runs,
                   calls, pastEnds, firstInv, sameInv, completions, startText,
                   startProg, committedText, memAccounted, doneText, lastValid>>

\* get_progress_file_path or File::create failed: progress.json is untouched,
\* the run ends.
SaveCreateFail ==
    /\ pc = "save_create"
    /\ Fail(IF saveNext = "batch" THEN "save" ELSE "finalsave")
    /\ UNCHANGED <<tally, unit, total_pages, blank, outExists, outFile, progFile,
                   inv, tracker,
                   markdown, batches, k, imgs, processed, saveNext, runs, calls,
                   pastEnds, firstInv, sameInv, startText, startProg,
                   committedText, accounted, memAccounted, lastValid, doneText>>

\* fs::write of progress.json, second half: write_all wrote the whole store.
\* After a batch the next batch starts, or (step 6) the document is marked
\* completed and the store saved again; after that last save the run
\* returns success.
SaveWrite ==
    /\ pc = "save_write"
    /\ progFile' = save(tracker)
    /\ lastValid' = save(tracker)
    /\ accounted' = memAccounted
    /\ IF saveNext = "batch" /\ k < Len(batches)
       THEN /\ k' = k + 1
            /\ imgs' = 0
            /\ pc' = "extract"
            /\ UNCHANGED <<tracker, saveNext, memAccounted, outcome, completions,
                           doneText>>
       ELSE IF saveNext = "batch" /\ processed = Len(Flatten(batches))
       THEN /\ tracker' = mark_completed(tracker, Doc)
            /\ memAccounted' = {}
            /\ saveNext' = "final"
            /\ pc' = "save_create"
            /\ UNCHANGED <<k, imgs, outcome, completions, doneText>>
       ELSE /\ Succeed
            /\ UNCHANGED <<tracker, saveNext, memAccounted, k, imgs>>
    /\ tally' = IF saveNext = "batch"
                THEN [tally EXCEPT !.saves = @ + 1,
                                   !.watermark = tracker[Doc].last_processed_page]
                ELSE tally
    /\ UNCHANGED <<unit, total_pages, blank, outExists, outFile, inv,
                   markdown, batches, processed, runs,
                   calls, pastEnds, firstInv, sameInv, startText,
                   startProg, committedText>>

\* write_all failed: part of a JSON document is in progress.json, the run
\* ends.
SaveWriteFail ==
    /\ pc = "save_write"
    /\ progFile' = CorruptProgFile
    /\ Fail(IF saveNext = "batch" THEN "save" ELSE "finalsave")
    /\ UNCHANGED <<tally, unit, total_pages, blank, outExists, outFile, inv, tracker,
                   markdown, batches, k, imgs, processed, saveNext, runs, calls,
                   pastEnds, firstInv, sameInv, startText, startProg,
                   committedText, accounted, memAccounted, lastValid, doneText>>

\* The process is terminated in the middle of a run: memory is lost, the
\* files stay as they are (a write_all in progress has written a prefix).
Crash ==
    /\ pc \in Running
    /\ pc' = "idle"
    /\ outcome' = "killed"
    /\ outFile' \in (IF pc = "flush_write" THEN PartialWrites(markdown) ELSE {})
                     \cup {outFile}
    /\ tracker' = ProgressTracker_new
    /\ markdown' = <<>>
    /\ batches' = <<>>
    /\ k' = 0
    /\ imgs' = 0
    /\ processed' = 0
    /\ saveNext' = "none"
    /\ memAccounted' = {}
    /\ tally' = NoTally
    /\ UNCHANGED <<unit, total_pages, blank, outExists, progFile, inv, runs, calls,
                   pastEnds, firstInv, sameInv, completions, startText, startProg,
                   committedText, accounted, doneText, lastValid>>

Next ==
    \/ StartRun
    \/ ExtractPage
    \/ ExtractFail
    \/ ConvertOk
    \/ ConvertFail
    \/ FlushCreate
    \/ FlushCreateFail
    \/ FlushWrite
    \/ FlushWriteFail
    \/ SaveCreate
    \/ SaveCreateFail
    \/ SaveWrite
    \/ SaveWriteFail
    \/ Crash

Spec == Init /\ [][Next]_vars

\* ------------------------------------------------ runs that are not killed
\* A step of the run in progress: an external call (extraction, backend,
\* file system) returned, with a result or with an error.
RunStep ==
    \/ ExtractPage
    \/ ExtractFail
    \/ ConvertOk
    \/ ConvertFail
    \/ FlushCreate
    \/ FlushCreateFail
    \/ FlushWrite
    \/ FlushWriteFail
    \/ SaveCreate
    \/ SaveCreateFail
    \/ SaveWrite
    \/ SaveWriteFail

NextLive == StartRun \/ RunStep

\* Every external call a run waits for returns.
SpecLive == Init /\ [][NextLive]_vars /\ WF_vars(RunStep)

\* ------------------------------------------------ resolve exercised alone
\* The characters expressions are drawn from: digits, a character that is
\* no digit, the range sign and the token separator.
ExprChars == {"0", "1", "2", "x", "-", ","}

\* The expressions of at most len characters.
Expressions(len) == UNION {[1..n -> ExprChars] : n \in 0..len}

Pending == [ok |-> FALSE, pages |-> <<>>, token |-> 0, rule |-> "pending"]

InitResolve ==
    /\ total_pages \in 0..MaxPages
    /\ blank = {}
    /\ InitPipeline
    /\ progFile = NoProgFile
    /\ unit \in [op : {"resolve"}, expression : Expressions(MaxExprLen),
                  done : {FALSE}, result : {Pending}]

Resolve ==
    /\ unit.op = "resolve"
    /\ ~unit.done
    /\ unit' = [unit EXCEPT !.done = TRUE,
                             !.result = resolve(unit.expression, total_pages)]
    /\ UNCHANGED <<tally, total_pages, blank, outExists, outFile, progFile, pc, inv,
                   tracker, markdown, batches, k, imgs, processed, saveNext,
                   outcome, runs, calls, pastEnds, firstInv, sameInv, completions,
                   startText, startProg, committedText, accounted, memAccounted,
                   lastValid, doneText>>

NextResolve == Resolve

SpecResolve == InitResolve /\ [][NextResolve]_vars

\* ------------------------------------------- send_request exercised alone
Texts(len) == UNION {[1..n -> {FENCE_OPEN, FENCE, "text"}] : n \in 0..len}

Responses ==
    [sent : BOOLEAN, status : {"OK", "UNAUTHORIZED", "INTERNAL_SERVER_ERROR"},
     json : BOOLEAN, error : BOOLEAN,
     items : {"absent", "empty", "notext", "text"}, text : Texts(MaxTextLen)]

InitBackend ==
    /\ total_pages = 1
    /\ blank = {}
    /\ InitPipeline
    /\ progFile = NoProgFile
    /\ unit \in [op : {"send_request"}, provider : {"gemini", "claude", "openai"},
                  resp : {r \in Responses : r.items = "text" \/ r.text = <<>>},
                  done : {FALSE}, result : {Err("pending")}]

Frame ==
    UNCHANGED <<tally, total_pages, blank, outExists, outFile, pc, inv,
                tracker, markdown, batches, k, imgs, processed, saveNext,
                outcome, runs, calls, pastEnds, firstInv, sameInv, completions,
                startText, startProg, committedText, accounted, memAccounted,
                lastValid, doneText>>

GeminiSend ==
    /\ unit.op = "send_request" /\ unit.provider = "gemini" /\ ~unit.done
    /\ unit' = [unit EXCEPT !.done = TRUE,
                             !.result = GeminiClient_send_request(unit.resp)]
    /\ UNCHANGED progFile
    /\ Frame

ClaudeSend ==
    /\ unit.op = "send_request" /\ unit.provider = "claude" /\ ~unit.done
    /\ unit' = [unit EXCEPT !.done = TRUE,
                             !.result = ClaudeClient_send_request(unit.resp)]
    /\ UNCHANGED progFile
    /\ Frame

OpenAISend ==
    /\ unit.op = "send_request" /\ unit.provider = "openai" /\ ~unit.done
    /\ unit' = [unit EXCEPT !.done = TRUE,
                             !.result = OpenAIClient_send_request(unit.resp)]
    /\ UNCHANGED progFile
    /\ Frame

NextBackend == GeminiSend \/ ClaudeSend \/ OpenAISend

SpecBackend == InitBackend /\ [][NextBackend]_vars

\* --------------------------------------- ProgressTracker::load exercised alone
OtherDoc == "b.pdf"

\* The trackers over the two documents.
Trackers ==
    LET Records == [last_processed_page : 0..MaxPages, total_pages : 1..MaxPages]
    IN  UNION {[D -> Records] : D \in SUBSET {Doc, OtherDoc}}

\* What can be at the path of progress.json: nothing, a file that cannot be
\* read, a file that holds a saved tracker, or one that does not decode (with
\* files, the tracker it held before it was damaged).
ProgFiles ==
    {NoProgFile, UnreadableProgFile}
    \cup [st : {"valid", "corrupt"}, files : Trackers]

InitLoad ==
    /\ total_pages = 1
    /\ blank = {}
    /\ InitPipeline
    /\ progFile \in ProgFiles
    /\ unit \in [op : {"load"}, dir : {"ok", "none", "uncreatable"},
                  before : {progFile}, done : {FALSE},
                  result : {[ok |-> FALSE, err |-> "pending",
                             files |-> ProgressTracker_new]}]

\* ProgressTracker::load: the path, then the file; nothing is written.
Load ==
    /\ unit.op = "load"
    /\ ~unit.done
    /\ LET progress_file == get_progress_file_path(unit.dir)
       IN  unit' = [unit EXCEPT
                       !.done = TRUE,
                       !.result = IF ~progress_file.ok
                                  THEN [ok |-> FALSE, err |-> progress_file.err,
                                        files |-> ProgressTracker_new]
                                  ELSE load(progFile)]
    /\ UNCHANGED progFile
    /\ Frame

NextLoad == Load

SpecLoad == InitLoad /\ [][NextLoad]_vars

\* ------------------------------------ ProgressTracker operations exercised alone
Records == [last_processed_page : 0..MaxPages, total_pages : 1..MaxPages]

\* A tracker made by new(), no operation applied yet.
InitTracker ==
    /\ total_pages = 1
    /\ blank = {}
    /\ InitPipeline
    /\ progFile = NoProgFile
    /\ unit = [op |-> "tracker", files |-> ProgressTracker_new, updated |-> {},
               n |-> 0,
               last |-> [kind |-> "new", d |-> Doc, p |-> ProcessingProgress(0, 1)]]

UpdateProgress ==
    /\ unit.op = "tracker"
    /\ unit.n < MaxOps
    /\ \E d \in {Doc, OtherDoc}, p \in Records :
        unit' = [unit EXCEPT !.files = update_progress(unit.files, d, p),
                             !.updated = @ \cup {d},
                             !.n = @ + 1,
                             !.last = [kind |-> "update", d |-> d, p |-> p]]
    /\ UNCHANGED progFile
    /\ Frame

MarkCompleted ==
    /\ unit.op = "tracker"
    /\ unit.n < MaxOps
    /\ \E d \in {Doc, OtherDoc} :
        unit' = [unit EXCEPT !.files = mark_completed(unit.files, d),
                             !.n = @ + 1,
                             !.last = [kind |-> "mark_completed", d |-> d,
                                       p |-> ProcessingProgress(0, 1)]]
    /\ UNCHANGED progFile
    /\ Frame

NextTracker == UpdateProgress \/ MarkCompleted

SpecTracker == InitTracker /\ [][NextTracker]_vars

\* ------------------------------------------------ the config commands (main.rs)
\* config.toml is a sequence of lines: the active_provider key first, then for
\* every section that is present its table header followed by its values.
\* A section value stands for the api key, url and model entered for it.
None == "none"
Providers == <<"gemini", "ollama", "claude", "openai">>
Keys == {"k1", "k2"}
NoConfigFile == [exists |-> FALSE, text |-> <<>>]

Config_default ==
    [active_provider |-> None, gemini |-> None, ollama |-> None,
     claude |-> None, openai |-> None]

Section(config, s) ==
    IF config[s] = None THEN <<>>
    ELSE <<[k |-> "table", v |-> s], [k |-> "value", v |-> config[s]]>>

toml_to_string_pretty(config) ==
    (IF config.active_provider = None THEN <<>>
     ELSE <<[k |-> "active_provider", v |-> config.active_provider]>>)
    \o Section(config, Providers[1]) \o Section(config, Providers[2])
    \o Section(config, Providers[3]) \o Section(config, Providers[4])

\* A table whose values are missing does not deserialize; a key or a table
\* that is not in the text is None.
toml_from_str(text) ==
    LET complete == \A i \in 1..Len(text) :
                        text[i].k = "table" =>
                            (i < Len(text) /\ text[i + 1].k = "value")
        value(s) == IF \E i \in 1..Len(text) : text[i] = [k |-> "table", v |-> s]
                    THEN text[(CHOOSE i \in 1..Len(text) :
                                  text[i] = [k |-> "table", v |-> s]) + 1].v
                    ELSE None
    IN  IF ~complete THEN [ok |-> FALSE, config |-> Config_default]
        ELSE [ok |-> TRUE,
              config |-> [active_provider |->
                              IF Len(text) > 0 /\ text[1].k = "active_provider"
                              THEN text[1].v ELSE None,
                          gemini |-> value("gemini"), ollama |-> value("ollama"),
                          claude |-> value("claude"), openai |-> value("openai")]]

Config_load(file) ==
    IF file.exists THEN toml_from_str(file.text)
    ELSE [ok |-> TRUE, config |-> Config_default]

\* std::fs::write creates or truncates the file and then writes the text; a
\* failure of the first step leaves the file, a failure of the second leaves
\* the lines written before it.
Config_save(file, config) ==
    LET toml_string == toml_to_string_pretty(config)
    IN  {[ok |-> FALSE, file |-> file]} \cup
        {[ok |-> n = Len(toml_string),
          file |-> [exists |-> TRUE, text |-> SubSeq(toml_string, 1, n)]] :
            n \in 0..Len(toml_string)}

InitConfig ==
    /\ total_pages = 1
    /\ blank = {}
    /\ InitPipeline
    /\ progFile = NoProgFile
    /\ unit = [op |-> "config", file |-> NoConfigFile,
               last |-> [cmd |-> "none", arg |-> None, before |-> NoConfigFile,
                         ok |-> TRUE]]

Configure(cmd, arg, out) ==
    /\ unit' = [unit EXCEPT !.file = out.file,
                            !.last = [cmd |-> cmd, arg |-> arg,
                                      before |-> unit.file, ok |-> out.ok]]
    /\ UNCHANGED progFile
    /\ Frame

\* Load, set the section and the active provider, save.
SetSection(cmd, provider, key) ==
    \E r \in {Config_load(unit.file)} :
        IF ~r.ok THEN Configure(cmd, provider, [ok |-> FALSE, file |-> unit.file])
        ELSE \E out \in Config_save(unit.file,
                    [r.config EXCEPT !.active_provider = provider,
                                     ![provider] = key]) :
                Configure(cmd, provider, out)

SetApiKey ==
    /\ unit.op = "config"
    /\ \E key \in Keys : SetSection("set_api_key", "gemini", key)

\* The model name is asked for before the section is set; a failed prompt
\* ends the command.
SetClaudeApiKey ==
    /\ unit.op = "config"
    /\ \/ Configure("set_claude_api_key", "claude",
                     [ok |-> FALSE, file |-> unit.file])
       \/ \E key \in Keys : SetSection("set_claude_api_key", "claude", key)

Edit ==
    /\ unit.op = "config"
    /\ \E selected_provider \in {"gemini", "claude", "ollama", "openai"} :
        \/ Configure("edit", selected_provider, [ok |-> FALSE, file |-> unit.file])
        \/ \E key \in Keys : SetSection("edit", selected_provider, key)

SetProvider ==
    /\ unit.op = "config"
    /\ \E new_provider \in {"gemini", "claude", "ollama", "openai", "mistral"} :
        IF ~unit.file.exists
        THEN Configure("set_provider", new_provider, [ok |-> FALSE, file |-> unit.file])
        ELSE \E r \in {Config_load(unit.file)} :
            IF ~r.ok
            THEN Configure("set_provider", new_provider,
                           [ok |-> FALSE, file |-> unit.file])
            ELSE IF new_provider \notin Range(Providers)
            THEN Configure("set_provider", new_provider,
                           [ok |-> TRUE, file |-> unit.file])
            ELSE IF r.config[new_provider] # None
            THEN \E out \in Config_save(unit.file,
                        [r.config EXCEPT !.active_provider = new_provider]) :
                    Configure("set_provider", new_provider, out)
            ELSE Configure("set_provider", new_provider,
                           [ok |-> TRUE, file |-> unit.file])

NextConfig == SetApiKey \/ SetClaudeApiKey \/ Edit \/ SetProvider

SpecConfig == InitConfig /\ [][NextConfig]_vars

\* --------------------------------- converting a directory of files (main.rs)
\* A directory entry is a file or a subdirectory with an extension; the files
\* of one run write to different output paths.
Exts == {"pdf", "jpg", "txt"}
Entries(len) == UNION {[1..n -> [is_file : BOOLEAN, ext : Exts]] : n \in 0..len}

get_file_mime_type(ext) ==
    CASE ext = "png" -> Ok("image/png")
      [] ext = "pdf" -> Ok("application/pdf")
      [] ext = "jpg" -> Ok("image/jpeg")
      [] ext = "jpeg" -> Ok("image/jpeg")
      [] OTHER -> Err("UnsupportedFileType")

\* The entries kept by the filter of the directory branch, in listing order.
RECURSIVE files_to_convert(_, _)
files_to_convert(entries, i) ==
    IF i > Len(entries) THEN <<>>
    ELSE (IF entries[i].is_file /\ get_file_mime_type(entries[i].ext).ok
          THEN <<i>> ELSE <<>>) \o files_to_convert(entries, i + 1)

\* What follows the call for one file: the error is printed and the loop
\* goes on to progress_bar.inc(1).
on_file_error_stop(ok) == IF ok THEN "inc" ELSE "finished"
on_file_result(ok) == "inc"

\* What follows std::fs::write in process_and_save_file.
after_write_always_notion(ok, notion) == IF notion THEN "notion" ELSE "return"
after_write(ok, notion) == IF ok /\ notion THEN "notion" ELSE "return"

InitConvert ==
    /\ total_pages = 1
    /\ blank = {}
    /\ InitPipeline
    /\ progFile = NoProgFile
    /\ \E entries \in Entries(MaxFiles), existed \in BOOLEAN, notion \in BOOLEAN,
          output_dir \in {"none", "exists", "missing"} :
        unit = [op |-> "convert", entries |-> entries, notion |-> notion,
                output_dir |-> output_dir,
                before |-> [i \in 1..Len(entries) |-> IF existed THEN "old" ELSE "absent"],
                out |-> [i \in 1..Len(entries) |-> IF existed THEN "old" ELSE "absent"],
                files |-> <<>>, i |-> 0, step |-> "list", attempts |-> <<>>,
                pos |-> 0, log |-> [i \in 1..Len(entries) |-> <<>>],
                errors |-> 0, result |-> "none"]

Convert_frame ==
    /\ UNCHANGED progFile
    /\ Frame

Cur == unit.files[unit.i]

\* One more event of the call for the current file.
Logged(e) == [unit.log EXCEPT ![Cur] = Append(@, e)]

\* process_and_save_file has returned for the current file.
Returned(ok) ==
    [step |-> on_file_result(ok), errors |-> unit.errors + (IF ok THEN 0 ELSE 1)]

ListDir ==
    /\ unit.op = "convert"
    /\ unit.step = "list"
    /\ \E files \in {files_to_convert(unit.entries, 1)} :
        unit' = IF files = <<>>
                THEN [unit EXCEPT !.step = "finished", !.result = "ok"]
                ELSE [unit EXCEPT !.files = files, !.i = 1, !.step = "read",
                                  !.attempts = <<files[1]>>]
    /\ Convert_frame

ListDirFail ==
    /\ unit.op = "convert"
    /\ unit.step = "list"
    /\ unit' = [unit EXCEPT !.step = "finished", !.result = "err"]
    /\ Convert_frame

ReadOk ==
    /\ unit.op = "convert"
    /\ unit.step = "read"
    /\ unit' = [unit EXCEPT !.step = "send", !.log = Logged("read_ok")]
    /\ Convert_frame

ReadFail ==
    /\ unit.op = "convert"
    /\ unit.step = "read"
    /\ unit' = [unit EXCEPT !.step = Returned(FALSE).step,
                            !.errors = Returned(FALSE).errors,
                            !.log = Logged("read_err")]
    /\ Convert_frame

SendOk ==
    /\ unit.op = "convert"
    /\ unit.step = "send"
    /\ unit' = [unit EXCEPT !.step = IF unit.output_dir = "missing"
                                     THEN "mkdir" ELSE "write",
                            !.log = Logged("send_ok")]
    /\ Convert_frame

SendFail ==
    /\ unit.op = "convert"
    /\ unit.step = "send"
    /\ unit' = [unit EXCEPT !.step = Returned(FALSE).step,
                            !.errors = Returned(FALSE).errors,
                            !.log = Logged("send_err")]
    /\ Convert_frame

MkdirOk ==
    /\ unit.op = "convert"
    /\ unit.step = "mkdir"
    /\ unit' = [unit EXCEPT !.step = "write", !.output_dir = "exists",
                            !.log = Logged("mkdir_ok")]
    /\ Convert_frame

MkdirFail ==
    /\ unit.op = "convert"
    /\ unit.step = "mkdir"
    /\ unit' = [unit EXCEPT !.step = Returned(FALSE).step,
                            !.errors = Returned(FALSE).errors,
                            !.log = Logged("mkdir_err")]
    /\ Convert_frame

\* After std::fs::write: on to Notion, or the call returns.
Written(ok, out) ==
    \E next \in {after_write(ok, unit.notion)} :
        unit' = [unit EXCEPT !.out[Cur] = out,
                            !.log = Logged(IF ok THEN "write_ok" ELSE "write_err"),
                            !.step = IF next = "notion" THEN "notion"
                                     ELSE Returned(ok).step,
                            !.errors = IF next = "notion" THEN @
                                       ELSE Returned(ok).errors]

WriteOk ==
    /\ unit.op = "convert"
    /\ unit.step = "write"
    /\ Written(TRUE, "new")
    /\ Convert_frame

\* The file cannot be created, or the write stops part way.
WriteFail ==
    /\ unit.op = "convert"
    /\ unit.step = "write"
    /\ \E out \in {unit.out[Cur], "partial"} : Written(FALSE, out)
    /\ Convert_frame

NotionOk ==
    /\ unit.op = "convert"
    /\ unit.step = "notion"
    /\ unit' = [unit EXCEPT !.step = Returned(TRUE).step,
                            !.log = Logged("notion_ok")]
    /\ Convert_frame

NotionFail ==
    /\ unit.op = "convert"
    /\ unit.step = "notion"
    /\ unit' = [unit EXCEPT !.step = Returned(FALSE).step,
                            !.errors = Returned(FALSE).errors,
                            !.log = Logged("notion_err")]
    /\ Convert_frame

\* progress_bar.inc(1), then the next file or the end of the loop.
Inc ==
    /\ unit.op = "convert"
    /\ unit.step = "inc"
    /\ unit' = IF unit.i < Len(unit.files)
               THEN [unit EXCEPT !.pos = @ + 1, !.i = @ + 1, !.step = "read",
                                 !.attempts = Append(@, unit.files[unit.i + 1])]
               ELSE [unit EXCEPT !.pos = @ + 1, !.step = "finished",
                                 !.result = "ok"]
    /\ Convert_frame

NextConvert ==
    \/ ListDir \/ ListDirFail
    \/ ReadOk \/ ReadFail
    \/ SendOk \/ SendFail
    \/ MkdirOk \/ MkdirFail
    \/ WriteOk \/ WriteFail
    \/ NotionOk \/ NotionFail
    \/ Inc

SpecConvert == InitConvert /\ [][NextConvert]_vars

\* ------------------------------------------------------------ properties
\* progress.json holds a record for the document.
RecExists(file) == file.st = "valid" /\ Doc \in DOMAIN file.files

\* That record, and its watermark.
Record(file) == file.files[Doc]

Watermark(file) == Record(file).last_processed_page

\* The watermark a run would load: 0 when there is no record.
WatermarkOr0(file) == IF RecExists(file) THEN Watermark(file) ELSE 0

\* The pages the inputs of the runs select.
SelPages == IF firstInv.explicit THEN firstInv.pages ELSE 0..(total_pages - 1)

\* text followed by the results of the first n batches of bs.
RECURSIVE AssembleFrom(_, _, _, _)
AssembleFrom(text, bs, n, blk) ==
    IF n = 0 THEN text
    ELSE append(AssembleFrom(text, bs, n - 1, blk), Convert(bs[n], blk))

\* The output of one uninterrupted successful run on a fresh document.
FullOutput ==
    LET bs == Chunks(SortedSeq(SelPages), firstInv.b)
    IN  AssembleFrom(<<>>, bs, Len(bs), blank)

HasText(p) == p \notin blank

\* C1: whenever progress.json holds a record for the document (and no flush
\* of the output is in progress), the text of every page of every batch the
\* record accounts for is in the output file.
C1_WatermarkBehindOutput ==
    (RecExists(progFile) /\ pc # "flush_write") =>
        \A p \in accounted : HasText(p) => p \in Range(outFile)

\* C2: when a run returns success for the first time and every earlier run
\* was ended by process termination, the text of every selected page is in
\* the output file exactly once.
C2_ExactlyOnceAfterTermination ==
    (pc = "done" /\ completions = 1 /\ pastEnds \subseteq {"killed"}) =>
        \A p \in SelPages : HasText(p) => Count(outFile, p) = 1

\* C3: the output file always holds the text of the last complete flush (N
\* batches) or, while the next flush is in progress, the text being flushed
\* (N+1 batches).
C3_NoHalfWrittenOutput ==
    \/ outFile = committedText
    \/ pc \in {"flush_create", "flush_write"} /\ outFile = markdown

\* C4 as claimed: after a backend failure on batch k the output file is the
\* assembled text of batches 1..k-1 and the watermark is the first page index
\* of batch k.
C4_Original ==
    (pc = "failed" /\ outcome = "backend") =>
        /\ outFile = AssembleFrom(<<>>, batches, k - 1, blank)
        /\ WatermarkOr0(progFile) = batches[k][1]

\* C4 amended: after a backend failure on batch k the output file is the text
\* it held when the run started followed by the results of batches 1..k-1;
\* for k = 1 progress.json is as it was when the run started, for k > 1 its
\* record for the document is (last page index of batch k-1) + 1 with the
\* document's page count.
C4_BackendFailure ==
    (pc = "failed" /\ outcome = "backend") =>
        /\ outFile = AssembleFrom(startText, batches, k - 1, blank)
        /\ k = 1 => progFile = startProg
        /\ k > 1 => /\ RecExists(progFile)
                    /\ Record(progFile) =
                         ProcessingProgress(Last(batches[k - 1]) + 1, total_pages)

C4_Witness ==
    /\ pc = "failed"
    /\ outcome = "backend"
    /\ k = 2
    /\ batches[2][1] > Last(batches[1]) + 1
    /\ outFile # <<>>

\* C5: once a run has returned success, a further run with the same inputs
\* makes no backend call and leaves the output file as it was.
C5_IdempotentResume ==
    (runs >= 2 /\ pastEnds = {"ok"}) => (calls = 0 /\ outFile = doneText)

\* C6: when a run returns success for the first time and every earlier run
\* failed on a batch, the output file is the output of one uninterrupted
\* successful run.
C6_ResumeEqualsUninterrupted ==
    (/\ pc = "done"
     /\ completions = 1
     /\ pastEnds # {}
     /\ pastEnds \subseteq {"extract", "backend", "flush", "save"})
        => outFile = FullOutput

C8_CompletionCleanup ==
    pc = "done" => ~(RecExists(progFile) /\ Watermark(progFile) = total_pages)

\* C9, for the default all-pages selection: whenever progress.json holds a
\* record for the document (and no flush of the output is in progress), the
\* text of every page index below its watermark is in the output file.
C9_PagesBelowWatermarkPresent ==
    (RecExists(progFile) /\ ~firstInv.explicit /\ pc # "flush_write") =>
        \A p \in 0..(Watermark(progFile) - 1) : HasText(p) => p \in Range(outFile)

\* C10: while pages of batch k+1 are extracted or sent to the backend, the
\* output file holds the document with batch k appended and progress.json
\* holds the record written after batch k.
C10_BatchOrder ==
    (pc \in {"extract", "convert"} /\ k > 1) =>
        /\ outExists
        /\ outFile = markdown
        /\ outFile = AssembleFrom(startText, batches, k - 1, blank)
        /\ RecExists(progFile)
        /\ Record(progFile) = BatchProgress(batches[k - 1], total_pages)
        /\ calls = k - 1

C10_Witness == pc = "convert" /\ k = 2 /\ imgs = Len(batches[2])

\* The page texts of a document, in the order they appear in it.
PagesOf(text) ==
    LET IsPage(t) == t # PAGE_DELIM
    IN  SelectSeq(text, IsPage)

IsPrefix(s, t) == Len(s) <= Len(t) /\ s = SubSeq(t, 1, Len(s))

StrictlyAscending(s) == \A i \in 1..(Len(s) - 1) : s[i] < s[i + 1]

\* The page texts of the selection, in ascending page order.
SelectionText == Convert(SortedSeq(SelPages), blank)

\* C11: until a run has returned success and the pipeline is invoked again,
\* the page texts in the output file are in strictly ascending page order
\* and are a prefix of the page texts of the requested selection.
C11_OrderedPrefix ==
    (runs >= 1 /\ "ok" \notin pastEnds) =>
        /\ StrictlyAscending(PagesOf(outFile))
        /\ IsPrefix(PagesOf(outFile), SelectionText)

\* The batches of the run in flight whose text has been appended in memory.
Converted == IF pc \in {"extract", "convert"} THEN k - 1 ELSE k

\* C12: in a run that started with watermark w (0 when progress.json held no
\* record), every page of every batch is >= w, one page is extracted at a time
\* from the batch in flight, and the in-memory document is the text on disk
\* at the start followed by the results of the batches converted so far.
C12_NoPageBelowWatermark ==
    (pc \in Running /\ batches # <<>>) =>
        /\ \A p \in Range(Flatten(batches)) : p >= WatermarkOr0(startProg)
        /\ imgs <= Len(batches[k])
        /\ markdown = AssembleFrom(startText, batches, Converted, blank)

C12_Witness ==
    /\ pc = "flush_write"
    /\ firstInv.explicit
    /\ RecExists(startProg)
    /\ \E p \in firstInv.pages : p < Watermark(startProg)

\* The run ended with an error of extraction, conversion or flushing.
BatchFailed == pc = "failed" /\ outcome \in {"extract", "backend", "flush"}

\* progress.json after the save that followed batch n of the run in flight.
ProgAfterBatch(n) ==
    IF n = 0 THEN startProg
    ELSE [st |-> "valid",
          files |-> [d \in DOMAIN startProg.files \cup {Doc} |->
                        IF d = Doc
                        THEN ProcessingProgress(Last(batches[n]) + 1, total_pages)
                        ELSE startProg.files[d]]]

\* C13: when a run ends with an error of extraction, conversion or flushing
\* in batch k, the error is the run's result, the backend has been called
\* once for each batch up to k and never twice for batch k, exactly batches
\* 1..k-1 are processed, progress.json is what the save after batch k-1 wrote
\* (what it was at the start of the run for k = 1), and the run takes no
\* further step: the only step from there is the start of another run.
C13_ErrorEndsRun ==
    /\ [](BatchFailed =>
            /\ k \in 1..Len(batches)
            /\ calls = (IF outcome = "extract" THEN k - 1 ELSE k)
            /\ processed = Len(Flatten(SubSeq(batches, 1, k - 1)))
            /\ progFile = ProgAfterBatch(k - 1))
    /\ [][BatchFailed => runs' = runs + 1]_vars

C13_Witness ==
    /\ BatchFailed
    /\ outcome = "flush"
    /\ k = 2
    /\ outFile # startText

\* ------------------------------------------------- page-selection expressions
\* The tokens of an expression: its maximal pieces without a separator.
Tokens(e) ==
    LET Ends == {b \in (1..(Len(e) + 1)) \X (0..Len(e)) :
                    /\ b[1] <= b[2] + 1
                    /\ b[1] = 1 \/ e[b[1] - 1] = ","
                    /\ b[2] = Len(e) \/ e[b[2] + 1] = ","
                    /\ \A m \in b[1]..b[2] : e[m] # ","}
    IN  {SubSeq(e, b[1], b[2]) : b \in Ends}

RECURSIVE StripZeros(_)
StripZeros(d) == IF Len(d) > 1 /\ d[1] = "0" THEN StripZeros(Tail(d)) ELSE d

\* d is a string of digits that writes the number n.
Writes(d, n) ==
    /\ d # <<>>
    /\ \A i \in 1..Len(d) : IsDigit(d[i])
    /\ StripZeros(d) = to_string(n)

\* t is start-end with start writing a and end writing b.
WritesRange(t, a, b) ==
    \E m \in 1..Len(t) :
        /\ t[m] = "-"
        /\ Writes(SubSeq(t, 1, m - 1), a)
        /\ Writes(SubSeq(t, m + 1, Len(t)), b)

\* The one-indexed pages a token names when it keeps every rule.
Named(t, T) ==
    {n \in 1..T : \/ Writes(t, n)
                   \/ \E a \in 1..T, b \in 1..T :
                        a <= n /\ n <= b /\ WritesRange(t, a, b)}

ValidToken(t, T) == Named(t, T) # {}

ValidExpression(e, T) == \A t \in Tokens(e) : ValidToken(t, T)

\* C14: for an expression whose every token is a page number in 1..T or a
\* range start-end with 1 <= start <= end <= T, resolve succeeds and returns
\* exactly the pages the tokens name, zero-indexed, as a strictly ascending
\* sequence of values below T.
C14_ResolveValid ==
    (unit.done /\ ValidExpression(unit.expression, total_pages)) =>
        /\ unit.result.ok
        /\ Range(unit.result.pages) =
             {n - 1 : n \in UNION {Named(t, total_pages) :
                                      t \in Tokens(unit.expression)}}
        /\ StrictlyAscending(unit.result.pages)
        /\ \A i \in 1..Len(unit.result.pages) :
             unit.result.pages[i] \in 0..(total_pages - 1)

\* A range that overlaps a page named before it, out of ascending order.
C14_Witness ==
    /\ unit.done
    /\ unit.expression = <<"2", ",", "1", "-", "2">>
    /\ total_pages = 2
    /\ unit.result.pages = <<0, 1>>

IsNumber(d) == d # <<>> /\ \A i \in 1..Len(d) : IsDigit(d[i])

\* The number x is above the number y, both written without leading zeros.
Above(x, y) ==
    \/ Len(x) > Len(y)
    \/ /\ Len(x) = Len(y)
       /\ \E i \in 1..Len(x) :
            /\ DigitValue(x[i]) > DigitValue(y[i])
            /\ \A j \in 1..(i - 1) : x[j] = y[j]

\* The numbers of a token: the token itself, or the two sides of a range.
Numbers(t) ==
    (IF IsNumber(t) THEN {<<t, t>>} ELSE {}) \cup
    {<<SubSeq(t, 1, m - 1), SubSeq(t, m + 1, Len(t))>> :
        m \in {m \in 1..Len(t) : /\ t[m] = "-"
                                  /\ IsNumber(SubSeq(t, 1, m - 1))
                                  /\ IsNumber(SubSeq(t, m + 1, Len(t)))}}

NonNumeric(t) == Numbers(t) = {}

PageZero(t) == \E r \in Numbers(t) : Writes(r[1], 0) \/ Writes(r[2], 0)

Inverted(t) == \E r \in Numbers(t) : Above(StripZeros(r[1]), StripZeros(r[2]))

AboveTotal(t, T) ==
    \E r \in Numbers(t) : \/ Above(StripZeros(r[1]), to_string(T))
                           \/ Above(StripZeros(r[2]), to_string(T))

BadToken(t, T) == NonNumeric(t) \/ PageZero(t) \/ Inverted(t) \/ AboveTotal(t, T)

\* C15: for an expression with a token that is no number and no range of
\* numbers, that names page 0, that is a range with start above end, or that
\* names a page above T, resolve returns an error and no page, whatever the
\* other tokens are.
C15_ResolveInvalid ==
    (unit.done /\ \E t \in Tokens(unit.expression) : BadToken(t, total_pages)) =>
        /\ ~unit.result.ok
        /\ unit.result.pages = <<>>

\* An inverted range after a valid token.
C15_Witness ==
    /\ unit.done
    /\ unit.expression = <<"1", ",", "2", "-", "1">>
    /\ total_pages = 2
    /\ Inverted(<<"2", "-", "1">>)
    /\ ~unit.result.ok

\* C16: a run invoked with an expression that breaks a rule (page 0, an
\* inverted range, a token that is no number, a page above the page count)
\* returns the input error without extracting a page, calling the backend or
\* forming a batch, and the output file and progress.json are what they were
\* when it started.
C16_InvalidExpression ==
    (runs >= 1 /\ inv.explicit /\ inv.expr \in BadExprs(total_pages)) =>
        /\ pc = "failed"
        /\ outcome = "input"
        /\ imgs = 0
        /\ calls = 0
        /\ batches = <<>>
        /\ outFile = startText
        /\ progFile = startProg

\* An expression with a token that breaks a rule, passed after a run that
\* left text and a record.
C16_Witness ==
    /\ pc = "failed"
    /\ outcome = "input"
    /\ outFile # <<>>
    /\ RecExists(progFile)
    /\ \E t \in Tokens(inv.expr) : BadToken(t, total_pages)

\* A document that neither starts nor ends with the delimiter and has no
\* two delimiters next to each other.
WellDelimited(text) ==
    /\ text # <<>> => text[1] # PAGE_DELIM /\ Last(text) # PAGE_DELIM
    /\ \A i \in 1..(Len(text) - 1) :
         ~(text[i] = PAGE_DELIM /\ text[i + 1] = PAGE_DELIM)

\* C17: the document every complete flush has written, over the batch
\* results of one run or of a run and its resumptions, neither starts nor
\* ends with the delimiter and has no two adjacent delimiters.
C17_DelimiterOnlyBetween == WellDelimited(committedText)

\* The response was received with status OK and carries no text.
NoText(resp) == resp.sent /\ resp.status = "OK" /\ resp.items # "text"

\* C18: a response that carries no text is returned as an error, and a
\* success with empty text is returned only for a response whose text is
\* empty.
C18_NoTextIsError ==
    unit.done =>
        /\ NoText(unit.resp) => ~unit.result.ok
        /\ (unit.result.ok /\ unit.result.text = <<>>) =>
              (unit.resp.items = "text" /\ unit.resp.text = <<>>)

\* C19: load of a missing or an unreadable progress.json returns Ok with an
\* empty tracker.
C19_LoadNeverFailsHard ==
    (unit.done /\ progFile.st \in {"absent", "unreadable"}) =>
        /\ unit.result.ok
        /\ unit.result.files = ProgressTracker_new

\* C20: load of a progress.json that exists, can be read and does not decode
\* returns the decode error, not a tracker, and the file is as it was.
C20_CorruptIsDecodeError ==
    (unit.done /\ unit.dir = "ok" /\ progFile.st = "corrupt") =>
        /\ ~unit.result.ok
        /\ unit.result.err = "JsonError"
        /\ progFile = unit.before

\* The damaged file held the progress of another document.
C20_Witness ==
    /\ unit.done
    /\ unit.dir = "ok"
    /\ progFile.st = "corrupt"
    /\ OtherDoc \in DOMAIN progFile.files
    /\ unit.result.err = "JsonError"

\* The number of batches of n pages with batch size b.
CeilDiv(n, b) == (n + b - 1) \div b

Max(S) == CHOOSE x \in S : \A y \in S : x >= y

\* C21: a run that processed its n pages and returned success made
\* ceil(n / b) backend calls, complete flushes and per-batch saves, and the
\* last watermark it saved is the largest page of its effective set plus one.
C21_OneOfEachPerBatch ==
    (pc = "done" /\ batches # <<>>) =>
        LET n == Len(Flatten(batches))
        IN  /\ calls = CeilDiv(n, inv.b)
            /\ tally.flushes = CeilDiv(n, inv.b)
            /\ tally.saves = CeilDiv(n, inv.b)
            /\ tally.watermark = Max(Range(Flatten(batches))) + 1

\* Three pages in batches of two: two of each.
C21_Witness ==
    /\ pc = "done"
    /\ Len(Flatten(batches)) = 3
    /\ inv.b = 2
    /\ calls = 2
    /\ tally.saves = 2

\* C22: a run in progress has called the backend at most once for each batch
\* up to the one in flight, and when every external call returns it reaches
\* the state where it returned success or the state where it returned an
\* error.
C22_RunTerminates ==
    /\ []((pc \in Running /\ batches # <<>>) =>
            (calls <= k /\ tally.flushes <= k /\ k <= Len(batches)))
    /\ (pc \in Running) ~> (pc \in {"done", "failed"})

\* A resumed run that returned success after two batches.
C22_Witness ==
    /\ pc = "done"
    /\ runs = 2
    /\ calls = 2

\* The effective page set of the run in flight.
Effective ==
    {p \in (IF inv.explicit THEN inv.pages ELSE 0..(total_pages - 1)) :
        p >= WatermarkOr0(startProg)}

\* C23: the batches of a run, concatenated in order, are the effective set
\* in ascending order; every batch is non-empty and has at most
\* pages_per_batch pages, every batch but the last exactly pages_per_batch.
C23_SimpleChunking ==
    batches # <<>> =>
        /\ Flatten(batches) = SortedSeq(Effective)
        /\ \A i \in 1..Len(batches) :
             /\ batches[i] # <<>>
             /\ Len(batches[i]) <= inv.b
             /\ i < Len(batches) => Len(batches[i]) = inv.b

\* Two pages that are not adjacent in one batch.
C23_Witness ==
    /\ inv.b = 2
    /\ batches = <<(<<0, 2>>)>>

\* C24: the step that completes the save after batch k leaves in
\* progress.json the record (last page index of batch k) + 1 with the page
\* count of the document, before any page of batch k+1 is extracted; and
\* while batch k is extracted, converted or flushed, the saves of batches
\* 1..k-1 have all been made.
C24_SaveAfterEachBatch ==
    /\ [][tally'.saves = tally.saves + 1 =>
            /\ RecExists(progFile')
            /\ Record(progFile') =
                 ProcessingProgress(Last(batches[k]) + 1, total_pages)
            /\ tally'.saves = k
            /\ calls' = k
            /\ imgs' = IF k' = k THEN imgs ELSE 0]_vars
    /\ []((batches # <<>> /\
            pc \in {"extract", "convert", "flush_create", "flush_write"}) =>
                tally.saves = k - 1)

\* The save after the second batch is made, the third batch not yet begun.
C24_Witness ==
    /\ tally.saves = 2
    /\ pc = "extract"
    /\ k = 3
    /\ imgs = 0
    /\ Watermark(progFile) = Last(batches[2]) + 1

\* The run in flight found a record for the document and an explicit
\* selection without a page at or above its watermark.
AlreadyComplete ==
    /\ runs >= 1
    /\ inv.explicit
    /\ inv.pages # {}
    /\ RecExists(startProg)
    /\ Effective = {}

\* C25: a run with an explicit selection that has no page at or above the
\* watermark of an existing record extracts no page, calls no backend and
\* leaves the output file as it found it; it removes the record and saves
\* the store, and when that save is complete it returns success with
\* progress.json holding the store without the record.  It returns an error
\* only when that save fails.
C25_AlreadyCompleteRun ==
    AlreadyComplete =>
        /\ batches = <<>>
        /\ imgs = 0
        /\ calls = 0
        /\ tally.flushes = 0
        /\ outFile = startText
        /\ pc \in {"save_create", "save_write", "done", "failed", "idle"}
        /\ pc \in Running => Doc \notin DOMAIN tracker
        /\ pc = "done" => progFile = [st |-> "valid",
                                      files |-> [d \in DOMAIN startProg.files \ {Doc}
                                                   |-> startProg.files[d]]]
        /\ pc = "failed" => outcome = "finalsave"

C25_Witness ==
    /\ AlreadyComplete
    /\ pc = "done"
    /\ outFile # <<>>
    /\ ~RecExists(progFile)

\* C26: the step that completes a flush leaves in the output file the text
\* that was in it when the run started followed by the results of the
\* batches converted so far in this run, so that text is a prefix of the
\* file after every complete flush.
C26_FlushRewritesWhole ==
    [][tally'.flushes = tally.flushes + 1 =>
        /\ outFile' = AssembleFrom(startText, batches, k, blank)
        /\ IsPrefix(startText, outFile')
        /\ PagesOf(outFile') = PagesOf(startText) \o
                                Convert(Flatten(SubSeq(batches, 1, k)), blank)]_vars

\* The second flush of a run that found text of an earlier session.
C26_Witness ==
    /\ tally.flushes = 2
    /\ runs = 2
    /\ startText # <<>>
    /\ outFile # startText
    /\ IsPrefix(startText, outFile)

\* C27: after update_progress(d, p) get_progress(d) is p, after
\* mark_completed(d) it is none, for a d never updated it is none, and both
\* operations leave get_progress of every other document as it was.
C27_TrackerOperations ==
    /\ [](unit.last.kind = "update" =>
            get_progress(unit.files, unit.last.d) = [some |-> TRUE, v |-> unit.last.p])
    /\ [](unit.last.kind = "mark_completed" =>
            ~get_progress(unit.files, unit.last.d).some)
    /\ [](\A d \in {Doc, OtherDoc} \ unit.updated :
            ~get_progress(unit.files, d).some)
    /\ [][\A e \in {Doc, OtherDoc} \ {unit'.last.d} :
            get_progress(unit'.files, e) = get_progress(unit.files, e)]_vars

\* A record replaced while the other document keeps its record.
C27_Witness ==
    /\ unit.n = 3
    /\ unit.last.kind = "update"
    /\ unit.last.d = Doc
    /\ DOMAIN unit.files = {Doc, OtherDoc}

\* C28: after any sequence of config commands the active provider of the
\* saved configuration is unset or names a provider whose section is present,
\* and set_provider with an unknown or unconfigured provider leaves the saved
\* configuration as it was.
ActiveConfigured(file) ==
    \/ ~file.exists
    \/ Len(file.text) = 0
    \/ file.text[1].k # "active_provider"
    \/ \E i \in 1..Len(file.text) :
            file.text[i] = [k |-> "table", v |-> file.text[1].v]
C28_ActiveProviderConfigured ==
    /\ ActiveConfigured(unit.file)
    /\ (/\ unit.last.cmd = "set_provider"
        /\ \A i \in 1..Len(unit.last.before.text) :
                unit.last.before.text[i] # [k |-> "table", v |-> unit.last.arg])
            => unit.file = unit.last.before

\* C29: a failing file does not stop a directory run: when the listing
\* succeeded the run ends with every supported file attempted once, in
\* listing order, and the counter advanced once per file, failed or not, and
\* at every moment the counter is the number of files finished.
Supported(entries) ==
    {i \in 1..Len(entries) : entries[i].is_file /\ entries[i].ext \in {"pdf", "jpg"}}
C29_FailureDoesNotStopRun ==
    /\ (unit.step = "finished" /\ unit.result # "err") =>
            /\ unit.attempts = SortedSeq(Supported(unit.entries))
            /\ unit.pos = Cardinality(Supported(unit.entries))
    /\ unit.step \notin {"list", "finished"} =>
            /\ unit.attempts = SubSeq(SortedSeq(Supported(unit.entries)), 1, unit.i)
            /\ unit.pos = unit.i - 1
    /\ (unit.step = "finished" /\ unit.result = "err") => unit.attempts = <<>>

\* Two files, the first failed, the second still converted.
C29_Witness ==
    /\ unit.step = "finished"
    /\ unit.pos = 2
    /\ unit.errors = 1
    /\ unit.log[unit.attempts[1]] = <<"read_err">>
    /\ unit.out[unit.attempts[2]] = "new"

\* C30: in process_and_save_file the output file is written only after the
\* backend returned a result, Notion is asked only after the file was written
\* successfully, and a failed read or backend call leaves the output file as
\* it was and makes no Notion request.
Before(L, a, b) ==
    \A j \in 1..Len(L) : L[j] \in b => \E i \in 1..(j - 1) : L[i] = a
C30_WriteThenNotion ==
    \A f \in 1..Len(unit.entries) :
        LET L == unit.log[f]
        IN  /\ Before(L, "send_ok", {"write_ok", "write_err"})
            /\ Before(L, "read_ok", {"send_ok", "send_err"})
            /\ Before(L, "write_ok", {"notion_ok", "notion_err"})
            /\ unit.out[f] # unit.before[f] =>
                    \E j \in 1..Len(L) : L[j] \in {"write_ok", "write_err"}
            /\ (\E j \in 1..Len(L) : L[j] \in {"read_err", "send_err"}) =>
                    /\ unit.out[f] = unit.before[f]
                    /\ \A j \in 1..Len(L) : L[j] \notin {"notion_ok", "notion_err"}

\* A backend failure on a file that had an output file, with Notion asked for.
C30_Witness ==
    /\ unit.notion
    /\ unit.step = "finished"
    /\ \E f \in 1..Len(unit.entries) :
        /\ unit.log[f] = <<"read_ok", "send_err">>
        /\ unit.out[f] = "old"
    /\ \E f \in 1..Len(unit.entries) :
        unit.log[f] = <<"read_ok", "send_ok", "write_ok", "notion_ok">>

====
